---- MODULE Spec2Model ----
(***************************************************************************)
(* Model of addInterfaceIndexes                                            *)
(* (packages/@css-blocks/core/src/BlockParser/features/                    *)
(*  add-interface-indexes.ts).                                             *)
(*                                                                         *)
(* The function walks the rules of a definition file, and for every        *)
(* block-interface-index declaration parses the value, records validation  *)
(* errors on the block, and writes the parsed value to the index of the    *)
(* style node each parsed selector of the rule resolves to.  Afterwards it *)
(* records an error for every style node whose index was not reset.        *)
(*                                                                         *)
(* A document is a sequence of rules; a rule is a record holding the keys  *)
(* of its parsed selectors and the raw values of its block-interface-index *)
(* declarations (walkDecls filters on that property, so other declarations *)
(* never reach the callback).  Raw values are sequences of one-character   *)
(* strings, so that quote stripping and parseInt are computed.             *)
(***************************************************************************)
EXTENDS Integers, Sequences, FiniteSets

VARIABLES
    doc,            \* root: the rules of the definition file (read only)
    pc,             \* "idle" | "walk" | "sel" | "returned" | "thrown"
    ri,             \* rule the walk is in
    di,             \* declaration of that rule visited last (0: none yet)
    si,             \* parsed selector of the rule the forEach is at
    parsedIndex,    \* the callback's local parsedIndex
    foundIndexes,   \* the invocation's local foundIndexes array
    index,          \* style node -> its index
    wasIndexReset,  \* style node -> its wasIndexReset flag
    errors,         \* the block's error list
    processed,      \* history: declarations whose callback ran, in order
    audits,         \* history: number of times the final audit ran
    run,            \* "first" | "second" invocation on the document
    firstResult     \* outcome of the first invocation, once it is over

vars == <<doc, pc, ri, di, si, parsedIndex, foundIndexes, index,
          wasIndexReset, errors, processed, audits, run, firstResult>>

\* Longest document drawn.
MaxRules == 2

-----------------------------------------------------------------------------
(* JavaScript numbers as far as the function meets them. *)

Num(n) == [t |-> "number", v |-> n]
NaN == [t |-> "NaN", v |-> 0]
Undefined == [t |-> "undefined", v |-> 0]
IsNaN(x) == x.t # "number"

-----------------------------------------------------------------------------
(* The block the definition file belongs to. *)

\* block.all(true), in enumeration order.
AllStyles == <<"root", "foo", "on", "big">>

Nodes == {AllStyles[i] : i \in 1..Len(AllStyles)}

\* styleNode.asSource()
AsSource(n) ==
    CASE n = "root" -> ":scope"
      [] n = "foo"  -> ".foo"
      [] n = "on"   -> ".foo[state|on]"
      [] n = "big"  -> ".foo[state|big]"

\* getStyleTargets(block, sel.key): the attribute and class matches of a key.
getStyleTargets(key) ==
    CASE key = ":scope"
           -> [blockAttrs |-> <<>>, blockClasses |-> <<"root">>]
      [] key = ".foo"
           -> [blockAttrs |-> <<>>, blockClasses |-> <<"foo">>]
      [] key = ":scope.foo"
           -> [blockAttrs |-> <<>>, blockClasses |-> <<"root", "foo">>]
      [] key = ".foo[state|on]"
           -> [blockAttrs |-> <<"on">>, blockClasses |-> <<"foo">>]
      [] key = ".foo[state|big]"
           -> [blockAttrs |-> <<"big">>, blockClasses |-> <<"foo">>]
      [] key = ".foo[state|on][state|big]"
           -> [blockAttrs |-> <<"on", "big">>, blockClasses |-> <<"foo">>]
      [] OTHER
           -> [blockAttrs |-> <<>>, blockClasses |-> <<>>]

-----------------------------------------------------------------------------
(* The documents drawn. *)

\* block.getParsedSelectors(rule), as keys, for the rules drawn.
SelLists ==
    { <<":scope">>,
      <<".foo">>,
      <<":scope.foo">>,
      <<".foo[state|on][state|big]">>,
      <<":scope", ".foo">>,
      <<".foo[state|on]", ".foo[state|big]">>,
      <<".foo", ".ghost", ":scope">> }

\* The raw values of a rule's block-interface-index declarations.
DeclLists ==
    { <<>>,
      << <<"0">> >>,
      << <<"1">> >>,
      << <<"\"", "1", "\"">> >>,
      << <<"a", "b", "c">> >>,
      << <<"1">>, <<"a", "b", "c">> >> }

Rules == [sels : SelLists, decls : DeclLists]

Docs == UNION {[1..k -> Rules] : k \in 0..MaxRules}

-----------------------------------------------------------------------------
(* stripQuotes and parseInt. *)

IsQuote(c) == c \in {"\"", "'"}

\* stripQuotes(decl.value): drops a leading and a trailing quote character.
stripQuotes(s) ==
    LET a == IF s # <<>> /\ IsQuote(Head(s)) THEN Tail(s) ELSE s
    IN  IF a # <<>> /\ IsQuote(a[Len(a)]) THEN SubSeq(a, 1, Len(a) - 1) ELSE a

Digits == {"0", "1", "2", "3", "4", "5", "6", "7", "8", "9"}

DigitVal(c) ==
    CASE c = "0" -> 0 [] c = "1" -> 1 [] c = "2" -> 2 [] c = "3" -> 3
      [] c = "4" -> 4 [] c = "5" -> 5 [] c = "6" -> 6 [] c = "7" -> 7
      [] c = "8" -> 8 [] c = "9" -> 9

RECURSIVE TrimLeft(_)
TrimLeft(s) == IF s # <<>> /\ Head(s) = " " THEN TrimLeft(Tail(s)) ELSE s

RECURSIVE DigitPrefix(_)
DigitPrefix(s) ==
    IF s # <<>> /\ Head(s) \in Digits
    THEN <<Head(s)>> \o DigitPrefix(Tail(s))
    ELSE <<>>

RECURSIVE DigitsValue(_)
DigitsValue(ds) ==
    IF ds = <<>> THEN 0
    ELSE 10 * DigitsValue(SubSeq(ds, 1, Len(ds) - 1)) + DigitVal(ds[Len(ds)])

\* parseInt(val, 10): leading white space, a sign, then the longest prefix of
\* digits; NaN when that prefix is empty.
parseInt(s) ==
    LET t == TrimLeft(s)
        signed == t # <<>> /\ Head(t) \in {"+", "-"}
        u == IF signed THEN Tail(t) ELSE t
        ds == DigitPrefix(u)
    IN  IF ds = <<>> THEN NaN
        ELSE IF signed /\ Head(t) = "-" THEN Num(0 - DigitsValue(ds))
        ELSE Num(DigitsValue(ds))

-----------------------------------------------------------------------------
(* The errors added to the block. *)

MustBeNumber == "block-interface-index must be a number."
MustBeUnique == "Each block-interface-index in a definition file must be unique."
NoPresetIndex == "Style node doesn't have a preset interface index after parsing definition file."

\* CssBlockError(message, sourceRange(configuration, root, file, decl)):
\* the location is the declaration's.
DeclError(m, r, d) == [msg |-> m, at |-> <<r, d>>, node |-> ""]

\* CssBlockError(message, {filename: file}): no line, no column.
FileError(n) == [msg |-> NoPresetIndex, at |-> <<>>, node |-> AsSource(n)]

-----------------------------------------------------------------------------
(* The walk. *)

NoDecl == <<0, 0>>

\* root.walkRules / rule.walkDecls: the declaration after declaration d of
\* rule r in document order, NoDecl when there is none.
RECURSIVE NextDecl(_, _)
NextDecl(r, d) ==
    IF r > Len(doc) THEN NoDecl
    ELSE IF d < Len(doc[r].decls) THEN <<r, d + 1>>
    ELSE NextDecl(r + 1, 0)

\* Variant: the walk is given up once an error has been recorded.
MoreDeclsUntilError == errors = <<>> /\ NextDecl(ri, di) # NoDecl

\* Whether the walk has another declaration to call back for.
MoreDecls == NextDecl(ri, di) # NoDecl

\* Variant: a lookup that never finds the value.
NeverIncludes(arr, x) == FALSE

\* foundIndexes.includes(parsedIndex): SameValueZero, so NaN is found.
Includes(arr, x) == \E i \in 1..Len(arr) : arr[i] = x

\* Variant: the array outlives the invocation.
StaleFoundIndexes == foundIndexes

\* const foundIndexes: number[] = [];
NewFoundIndexes == <<>>

-----------------------------------------------------------------------------
(* The assignment to a style node. *)

\* Variant: the class match is preferred to the attribute match.
ClassFirstNode(t) ==
    IF t.blockClasses # <<>> THEN t.blockClasses[1] ELSE t.blockAttrs[1]

\* The style node a resolved target's index goes to: blockAttrs[0] when there
\* is an attribute match, blockClasses[0] otherwise.
WrittenNode(t) ==
    IF Len(t.blockAttrs) > 0 THEN t.blockAttrs[1] ELSE t.blockClasses[1]

\* Neither branch of the if applies: the else branch throws.
Unmatched(t) == ~(Len(t.blockAttrs) > 0) /\ ~(Len(t.blockClasses) > 0)

\* Variant: an index already reset in this pass is not overwritten.
KeepFirstIndex(n, v) ==
    IF wasIndexReset[n] THEN index ELSE [index EXCEPT ![n] = v]

\* styleNode.index = parsedIndex
SetIndex(n, v) == [index EXCEPT ![n] = v]

\* The index setter records that the index was reset.
MarkReset(n) == [wasIndexReset EXCEPT ![n] = TRUE]

\* Where the forEach over the parsed selectors goes after a selector: to the
\* next selector, or back to the walk after the last one.
AfterSelector ==
    IF si < Len(doc[ri].sels) THEN <<"sel", si + 1>> ELSE <<"walk", 1>>

\* Variant: an unmatched target is skipped and the forEach goes on.
SkipUnmatched == AfterSelector

\* The throw leaves the function: nothing of it runs afterwards.
AfterUnmatched == <<"thrown", si>>

-----------------------------------------------------------------------------
(* The final audit. *)

\* Variant: the test without its negation.
ResetAlready(n) == wasIndexReset[n]

\* if (!styleNode.wasIndexReset)
NotReset(n) == ~wasIndexReset[n]

\* block.all(true).forEach(...): the errors added, from style i on.
RECURSIVE AuditErrors(_)
AuditErrors(i) ==
    IF i > Len(AllStyles) THEN <<>>
    ELSE (IF NotReset(AllStyles[i]) THEN <<FileError(AllStyles[i])>> ELSE <<>>)
         \o AuditErrors(i + 1)

-----------------------------------------------------------------------------

TypeOK ==
    /\ doc \in Docs
    /\ pc \in {"idle", "walk", "sel", "returned", "thrown"}
    /\ \A n \in Nodes : wasIndexReset[n] \in BOOLEAN

Init ==
    /\ doc \in Docs
    /\ pc = "idle"
    /\ ri = 1
    /\ di = 0
    /\ si = 1
    /\ parsedIndex = Undefined
    /\ foundIndexes = <<>>
    /\ index = [n \in Nodes |-> Undefined]
    /\ wasIndexReset = [n \in Nodes |-> FALSE]
    /\ errors = <<>>
    /\ processed = <<>>
    /\ audits = 0
    /\ run = "first"
    /\ firstResult = <<>>

\* addInterfaceIndexes is entered: its local array is created.
Enter ==
    /\ pc = "idle"
    /\ pc' = "walk"
    /\ foundIndexes' = NewFoundIndexes
    /\ UNCHANGED <<doc, ri, di, si, parsedIndex, index, wasIndexReset, errors,
                   processed, audits, run, firstResult>>

\* The walkDecls callback up to the forEach: the value is unquoted and
\* parsed, a NaN is reported, and the value is looked up in foundIndexes and
\* either reported as a repeat or pushed.
VisitDecl ==
    /\ pc = "walk"
    /\ MoreDecls
    /\ LET pos == NextDecl(ri, di)
           val == stripQuotes(doc[pos[1]].decls[pos[2]])
           p == parseInt(val)
           e1 == IF IsNaN(p)
                 THEN Append(errors, DeclError(MustBeNumber, pos[1], pos[2]))
                 ELSE errors
       IN  /\ ri' = pos[1]
           /\ di' = pos[2]
           /\ parsedIndex' = p
           /\ IF Includes(foundIndexes, p)
              THEN /\ errors' = Append(e1, DeclError(MustBeUnique, pos[1], pos[2]))
                   /\ foundIndexes' = foundIndexes
              ELSE /\ errors' = e1
                   /\ foundIndexes' = Append(foundIndexes, p)
           /\ processed' = Append(processed, pos)
    /\ pc' = "sel"
    /\ si' = 1
    /\ UNCHANGED <<doc, index, wasIndexReset, audits, run, firstResult>>

\* One turn of parsedSelectors.forEach whose target has a match: the index
\* of the first attribute match, else of the first class match, is set.
AssignIndex ==
    /\ pc = "sel"
    /\ LET t == getStyleTargets(doc[ri].sels[si])
       IN  /\ ~Unmatched(t)
           /\ index' = SetIndex(WrittenNode(t), parsedIndex)
           /\ wasIndexReset' = MarkReset(WrittenNode(t))
    /\ pc' = AfterSelector[1]
    /\ si' = AfterSelector[2]
    /\ UNCHANGED <<doc, ri, di, parsedIndex, foundIndexes, errors, processed,
                   audits, run, firstResult>>

\* One turn of parsedSelectors.forEach whose target has no match: the throw.
ThrowUnmatched ==
    /\ pc = "sel"
    /\ Unmatched(getStyleTargets(doc[ri].sels[si]))
    /\ pc' = AfterUnmatched[1]
    /\ si' = AfterUnmatched[2]
    /\ UNCHANGED <<doc, ri, di, parsedIndex, foundIndexes, index, wasIndexReset,
                   errors, processed, audits, run, firstResult>>

\* The walk is over: every style node not reset gets its error, and the
\* function returns.
Audit ==
    /\ pc = "walk"
    /\ ~MoreDecls
    /\ errors' = errors \o AuditErrors(1)
    /\ audits' = audits + 1
    /\ pc' = "returned"
    /\ UNCHANGED <<doc, ri, di, si, parsedIndex, foundIndexes, index,
                   wasIndexReset, processed, run, firstResult>>

\* Between two invocations on the same document: the outcome of the first is
\* kept aside, and the block is reset (every flag false, no error).  The
\* indexes stay as the first invocation left them.
ResetBlock ==
    /\ pc \in {"returned", "thrown"}
    /\ run = "first"
    /\ firstResult' = [index |-> index, errors |-> errors, pc |-> pc]
    /\ run' = "second"
    /\ wasIndexReset' = [n \in Nodes |-> FALSE]
    /\ errors' = <<>>
    /\ pc' = "idle"
    /\ ri' = 1
    /\ di' = 0
    /\ si' = 1
    /\ parsedIndex' = Undefined
    /\ processed' = <<>>
    /\ audits' = 0
    /\ UNCHANGED <<doc, foundIndexes, index>>

Next ==
    \/ Enter
    \/ VisitDecl
    \/ AssignIndex
    \/ ThrowUnmatched
    \/ Audit

NextRerun ==
    \/ Next
    \/ ResetBlock

\* One invocation.
Spec == Init /\ [][Next]_vars

\* Two invocations on the same document, the block reset in between.
SpecRerun == Init /\ [][NextRerun]_vars
-----------------------------------------------------------------------------
(* Vocabulary of the properties, read off the document. *)

\* Document order.
Before(a, b) == a[1] < b[1] \/ (a[1] = b[1] /\ a[2] < b[2])

\* The declarations in document order, from rule r on.
RECURSIVE DeclsFrom(_)
DeclsFrom(r) ==
    IF r > Len(doc) THEN <<>>
    ELSE [d \in 1..Len(doc[r].decls) |-> <<r, d>>] \o DeclsFrom(r + 1)

\* The declarations of the document.
DeclPositions == {DeclsFrom(1)[i] : i \in 1..Len(DeclsFrom(1))}

\* The value a declaration declares.
Declared(pos) == parseInt(stripQuotes(doc[pos[1]].decls[pos[2]]))
Numeric(pos) == Declared(pos).t = "number"

\* The style nodes the selectors of a declaration's rule select for writing.
TargetedBy(pos) ==
    {WrittenNode(getStyleTargets(doc[pos[1]].sels[k])) :
        k \in 1..Len(doc[pos[1]].sels)}

\* Every selector of every rule resolves to a style node.
AllResolve ==
    \A r \in 1..Len(doc) : \A k \in 1..Len(doc[r].sels) :
        LET t == getStyleTargets(doc[r].sels[k])
        IN  t.blockAttrs # <<>> \/ t.blockClasses # <<>>

\* The declarations whose callback ran.
Processed == {processed[i] : i \in 1..Len(processed)}

\* How many errors with message m the block holds for declaration pos.
ErrorsAt(pos, m) ==
    Cardinality({i \in 1..Len(errors) : errors[i].msg = m /\ errors[i].at = pos})

\* How many completeness errors the block holds for style node n.
ErrorsFor(n) ==
    Cardinality({i \in 1..Len(errors) :
        errors[i].msg = NoPresetIndex /\ errors[i].node = AsSource(n)})

\* Every rule declares one index, all numeric and pairwise distinct, and
\* every selector resolves.
WellFormed ==
    /\ AllResolve
    /\ \A r \in 1..Len(doc) : Len(doc[r].decls) = 1
    /\ \A a \in DeclPositions : Numeric(a)
    /\ \A a, b \in DeclPositions : a # b => Declared(a) # Declared(b)

\* The last declaration, in document order, whose rule targets n.
LastTargeting(n) ==
    CHOOSE a \in DeclPositions :
        /\ n \in TargetedBy(a)
        /\ \A b \in DeclPositions : n \in TargetedBy(b) => ~Before(a, b)

Targeted(n) == \E a \in DeclPositions : n \in TargetedBy(a)

-----------------------------------------------------------------------------
(* C1 *)

\* C1: when two declarations of a file carry the same number, exactly one
\* must-be-unique error is recorded, for the later one, and only the style
\* nodes of the first declaration receive that index: the later declaration
\* assigns it to no style node and resets none.
C1_DuplicateAssignsNothing ==
    pc = "returned" =>
        \A a, b \in DeclPositions :
            ( /\ Before(a, b)
              /\ Numeric(a)
              /\ Declared(a) = Declared(b)
              /\ \A c \in DeclPositions \ {a, b} : Declared(c) # Declared(a) )
            => /\ ErrorsAt(a, MustBeUnique) = 0
               /\ ErrorsAt(b, MustBeUnique) = 1
               /\ \A n \in Nodes \ TargetedBy(a) : index[n] # Declared(a)
               /\ \A n \in TargetedBy(b) :
                      wasIndexReset[n] =>
                          \E c \in DeclPositions \ {b} : n \in TargetedBy(c)

-----------------------------------------------------------------------------
(* C2 *)

\* C2: a declaration whose value does not parse as a base-10 integer gets
\* the must-be-a-number error and mutates no style node: no style node ever
\* holds the failed parse result, and no reset flag is set by it.
C2_NonNumericMutatesNothing ==
    /\ \A a \in Processed : ~Numeric(a) => ErrorsAt(a, MustBeNumber) = 1
    /\ \A n \in Nodes : index[n] # NaN
    /\ \A n \in Nodes :
           wasIndexReset[n] => \E a \in Processed : Numeric(a) /\ n \in TargetedBy(a)

-----------------------------------------------------------------------------
(* C3 *)

\* C3: the uniqueness check is applied only to values that parsed: every
\* non-numeric declaration contributes exactly one error, the
\* must-be-a-number error, never a must-be-unique error, and a failed parse
\* result is never added to foundIndexes.
C3_UniquenessOnlyForNumbers ==
    /\ \A a \in Processed :
           ~Numeric(a) =>
               /\ ErrorsAt(a, MustBeNumber) = 1
               /\ ErrorsAt(a, MustBeUnique) = 0
    /\ \A i \in 1..Len(foundIndexes) : foundIndexes[i] # NaN

-----------------------------------------------------------------------------
(* C4 *)

\* C4 as stated: in a well-formed file, also when several rules resolve to
\* the same style node, after the return every style node targeted by a rule
\* has the index that rule declares, and its reset flag is true.
C4_EveryRuleValueKept ==
    (pc = "returned" /\ WellFormed) =>
        \A a \in DeclPositions : \A n \in TargetedBy(a) :
            index[n] = Declared(a) /\ wasIndexReset[n]

\* C4 as amended: in a well-formed file, after the return every style node
\* targeted by a rule has the index declared by the last rule, in document
\* order, that targets it, and its reset flag is true.
C4_LastRuleValueKept ==
    (pc = "returned" /\ WellFormed) =>
        \A n \in Nodes :
            Targeted(n) =>
                index[n] = Declared(LastTargeting(n)) /\ wasIndexReset[n]

\* A well-formed file in which two rules target the same style node was
\* processed to the end.
C4_Witness ==
    /\ pc = "returned"
    /\ WellFormed
    /\ \E a, b \in DeclPositions : a # b /\ TargetedBy(a) \cap TargetedBy(b) # {}

-----------------------------------------------------------------------------
(* C5 *)

\* C5: on return the completeness errors correspond one to one to the style
\* nodes of block.all(true) whose reset flag is false: each such node has
\* exactly one error naming its source representation, with the filename
\* only, and no node set by a valid declaration of this pass has one.
C5_AuditMatchesUnset ==
    pc = "returned" =>
        /\ \A n \in Nodes : ErrorsFor(n) = (IF wasIndexReset[n] THEN 0 ELSE 1)
        /\ \A i \in 1..Len(errors) :
               errors[i].msg = NoPresetIndex =>
                   /\ errors[i].at = <<>>
                   /\ \E n \in Nodes : errors[i].node = AsSource(n)
        /\ \A a \in Processed : \A n \in TargetedBy(a) :
               Numeric(a) => ErrorsFor(n) = 0

\* A pass returned having set some style node by a valid declaration and
\* having left another one unset.
C5_Witness ==
    /\ pc = "returned"
    /\ \E n \in Nodes : ~wasIndexReset[n]
    /\ \E a \in Processed : Numeric(a) /\ TargetedBy(a) # {}

-----------------------------------------------------------------------------
(* C6 *)

\* C6: in a file whose selectors all resolve, whatever validation errors are
\* recorded, nothing is thrown, every declaration is processed in document
\* order, the audit runs exactly once, after the last declaration, and every
\* per-declaration error precedes every completeness error.
C6_ErrorsNeverInterrupt ==
    AllResolve =>
        /\ pc # "thrown"
        /\ audits = (IF pc = "returned" THEN 1 ELSE 0)
        /\ pc = "returned" => processed = DeclsFrom(1)
        /\ \A i, j \in 1..Len(errors) :
               (errors[i].msg = NoPresetIndex /\ errors[j].msg # NoPresetIndex)
                   => j < i

\* A pass returned after both kinds of validation error were recorded, one
\* of them before its last declaration, and the audit added an error too.
C6_Witness ==
    /\ pc = "returned"
    /\ AllResolve
    /\ \E i \in 1..Len(errors) :
           /\ errors[i].at # <<>>
           /\ Before(errors[i].at, processed[Len(processed)])
    /\ \E i \in 1..Len(errors) : errors[i].msg = MustBeNumber
    /\ \E i \in 1..Len(errors) :
           errors[i].msg = MustBeUnique /\ Numeric(errors[i].at)
    /\ \E i \in 1..Len(errors) : errors[i].msg = NoPresetIndex

-----------------------------------------------------------------------------
(* C7 *)

\* C7: when a resolved target has neither an attribute nor a class match the
\* function aborts at once: that step appends no error and leaves the
\* indexes, flags and errors as they are, the audit has not run and never
\* runs, and no selector, declaration or rule is processed afterwards.
C7_UnmatchedAborts ==
    [][ /\ ( /\ pc = "sel"
             /\ getStyleTargets(doc[ri].sels[si]).blockAttrs = <<>>
             /\ getStyleTargets(doc[ri].sels[si]).blockClasses = <<>> )
           => /\ pc' = "thrown"
              /\ errors' = errors
              /\ index' = index
              /\ wasIndexReset' = wasIndexReset
              /\ processed' = processed
              /\ audits' = 0
        /\ pc = "thrown" => FALSE ]_vars

\* The function aborted with an error and an assignment already made, and
\* with a selector and a declaration still to come.
C7_Witness ==
    /\ pc = "thrown"
    /\ errors # <<>>
    /\ \E n \in Nodes : wasIndexReset[n]
    /\ si < Len(doc[ri].sels)
    /\ \E a \in DeclPositions : Before(<<ri, di>>, a)

-----------------------------------------------------------------------------
(* C8 *)

\* C8: a second invocation on the same document and the reset block ends as
\* the first did, with the same style-node-to-index mapping and the same
\* error list.
C8_RerunSameOutcome ==
    (run = "second" /\ pc \in {"returned", "thrown"}) =>
        /\ pc = firstResult.pc
        /\ index = firstResult.index
        /\ errors = firstResult.errors

\* The second invocation returned having seen values the first saw too,
\* without any must-be-unique error.
C8_Witness ==
    /\ run = "second"
    /\ pc = "returned"
    /\ Len(foundIndexes) > 1
    /\ \A i \in 1..Len(errors) : errors[i].msg # MustBeUnique

-----------------------------------------------------------------------------
(* C9 *)

\* C9: for a resolved target exactly one style node is written, the first
\* attribute match when there is one, otherwise the first class match; every
\* other style node keeps its index and its reset flag.
C9_OneNodePerTarget ==
    [][ pc = "sel" =>
          LET t == getStyleTargets(doc[ri].sels[si])
              first == IF t.blockAttrs # <<>> THEN t.blockAttrs[1]
                       ELSE t.blockClasses[1]
          IN  (t.blockAttrs # <<>> \/ t.blockClasses # <<>>) =>
                  /\ index'[first] = parsedIndex
                  /\ wasIndexReset'[first]
                  /\ \A m \in Nodes \ {first} :
                         /\ index'[m] = index[m]
                         /\ wasIndexReset'[m] = wasIndexReset[m] ]_vars

\* The last selector of a rule had two attribute matches and a class match:
\* the first attribute match was written, the others were not.
C9_Witness ==
    /\ pc = "walk"
    /\ di > 0
    /\ LET t == getStyleTargets(doc[ri].sels[Len(doc[ri].sels)])
       IN  /\ Len(t.blockAttrs) > 1
           /\ t.blockClasses # <<>>
           /\ wasIndexReset[t.blockAttrs[1]]
           /\ ~wasIndexReset[t.blockAttrs[2]]
           /\ ~wasIndexReset[t.blockClasses[1]]

-----------------------------------------------------------------------------
(* C10 *)

\* C10 as stated: whenever the function returns with no error on the block,
\* the style nodes of block.all(true) carry pairwise distinct integer
\* indexes.
C10_IndexesInjective ==
    (pc = "returned" /\ errors = <<>>) =>
        /\ \A n \in Nodes : index[n].t = "number"
        /\ \A n, m \in Nodes : n # m => index[n] # index[m]

\* C10 as amended: whenever the function returns with no error on the block,
\* every style node of block.all(true) carries an integer index, and two
\* style nodes carry the same index exactly when the same declaration wrote
\* both last (a rule whose parsed selectors resolve to different style
\* nodes); style nodes written by different declarations differ.
C10_DistinctAcrossDeclarations ==
    (pc = "returned" /\ errors = <<>>) =>
        /\ \A n \in Nodes : index[n].t = "number"
        /\ \A n, m \in Nodes :
               index[n] = index[m] <=> LastTargeting(n) = LastTargeting(m)

\* The function returned with no error, two style nodes sharing an index and
\* two others not.
C10_Witness ==
    /\ pc = "returned"
    /\ errors = <<>>
    /\ \E n, m \in Nodes : n # m /\ index[n] = index[m]
    /\ \E n, m \in Nodes : index[n] # index[m]
====
